---- MODULE Spec2Model ----
(***************************************************************************)
(* Rivest's all-or-nothing transform over SHA-1: encode_sha1, decode_sha1  *)
(* and xor_slice of src/lib.rs, as a state machine over byte buffers.      *)
(***************************************************************************)
EXTENDS Integers, Sequences, FiniteSets, TLC

(***************************************************************************)
(* Bitwise operations                                                      *)
(***************************************************************************)
Pow2(n) == 2^n

Min(a, b) == IF a < b THEN a ELSE b

\* u8 ^ u8, nibble by nibble (the ^= of xor_slice)
BitXor == [a \in 0..1 |-> [b \in 0..1 |-> (a + b) % 2]]

NibXor ==
  [a \in 0..15 |-> [b \in 0..15 |->
      BitXor[a % 2][b % 2]
    + 2 * BitXor[(a \div 2) % 2][(b \div 2) % 2]
    + 4 * BitXor[(a \div 4) % 2][(b \div 4) % 2]
    + 8 * BitXor[(a \div 8) % 2][(b \div 8) % 2]]]

NibAnd ==
  [a \in 0..15 |-> [b \in 0..15 |->
      ((a % 2) * (b % 2))
    + 2 * (((a \div 2) % 2) * ((b \div 2) % 2))
    + 4 * (((a \div 4) % 2) * ((b \div 4) % 2))
    + 8 * (((a \div 8) % 2) * ((b \div 8) % 2))]]

ByteXor(a, b) == 16 * NibXor[a \div 16][b \div 16] + NibXor[a % 16][b % 16]
ByteAnd(a, b) == 16 * NibAnd[a \div 16][b \div 16] + NibAnd[a % 16][b % 16]

XorTab == [a \in 0..255 |-> [b \in 0..255 |-> ByteXor(a, b)]]
AndTab == [a \in 0..255 |-> [b \in 0..255 |-> ByteAnd(a, b)]]

\* a bitwise operation on 16-bit halves from its byte table
HalfOp(tab, a, b) == 256 * tab[a \div 256][b \div 256] + tab[a % 256][b % 256]

\* A 32-bit word is the pair << high 16 bits, low 16 bits >>.
Xor32(a, b) == << HalfOp(XorTab, a[1], b[1]), HalfOp(XorTab, a[2], b[2]) >>
And32(a, b) == << HalfOp(AndTab, a[1], b[1]), HalfOp(AndTab, a[2], b[2]) >>
Not32(a) == << 65535 - a[1], 65535 - a[2] >>
\* wrapping_add
Add32(a, b) ==
  LET lo == a[2] + b[2]
  IN << (a[1] + b[1] + (lo \div 65536)) % 65536, lo % 65536 >>
\* rotate_left by n < 16
RotlSmall(x, n) ==
  << ((x[1] * Pow2(n)) % 65536) + (x[2] \div Pow2(16 - n)),
     ((x[2] * Pow2(n)) % 65536) + (x[1] \div Pow2(16 - n)) >>
Rotl32(x, n) == IF n < 16 THEN RotlSmall(x, n) ELSE RotlSmall(<< x[2], x[1] >>, n - 16)

(***************************************************************************)
(* u32::to_be_bytes: the counter as 4 bytes, most significant first        *)
(***************************************************************************)
\* the counter in little-endian order (to_le_bytes)
ToLeBytes(i) ==
  << i % 256, (i \div 256) % 256, (i \div 65536) % 256, (i \div 16777216) % 256 >>

ToBeBytes(i) ==
  << (i \div 16777216) % 256, (i \div 65536) % 256, (i \div 256) % 256, i % 256 >>

(***************************************************************************)
(* Sha1::digest (FIPS 180-4), on a sequence of bytes                       *)
(***************************************************************************)
Zeros(n) == [k \in 1..n |-> 0]

\* the message, 0x80, zero fill, then the bit length as 8 big-endian bytes
Sha1Pad(msg) ==
  LET len == Len(msg)
      fill == (119 - (len % 64)) % 64
      bits == len * 8
  IN msg \o <<128>> \o Zeros(fill) \o Zeros(4)
       \o << bits \div 16777216, (bits \div 65536) % 256, (bits \div 256) % 256,
             bits % 256 >>

BeWord(bytes, k) == << bytes[k] * 256 + bytes[k + 1], bytes[k + 2] * 256 + bytes[k + 3] >>

WordBytes(w) == << w[1] \div 256, w[1] % 256, w[2] \div 256, w[2] % 256 >>

RECURSIVE Sha1Schedule(_, _)
\* w[t] = rotl1(w[t-3] ^ w[t-8] ^ w[t-14] ^ w[t-16]), t = 17..80 (1-based)
Sha1Schedule(w, t) ==
  IF Len(w) >= 80 THEN w
  ELSE Sha1Schedule(
         Append(w, Rotl32(Xor32(Xor32(w[t - 3], w[t - 8]),
                                Xor32(w[t - 14], w[t - 16])), 1)),
         t + 1)

Sha1F(t, b, c, d) ==
  IF t <= 20 THEN Xor32(And32(b, c), And32(Not32(b), d))
  ELSE IF t <= 40 THEN Xor32(Xor32(b, c), d)
  ELSE IF t <= 60 THEN Xor32(Xor32(And32(b, c), And32(b, d)), And32(c, d))
  ELSE Xor32(Xor32(b, c), d)

\* 5A827999, 6ED9EBA1, 8F1BBCDC, CA62C1D6
Sha1K(t) ==
  IF t <= 20 THEN << 23170, 31129 >>
  ELSE IF t <= 40 THEN << 28377, 60321 >>
  ELSE IF t <= 60 THEN << 36635, 48348 >>
  ELSE << 51810, 49622 >>

RECURSIVE Sha1Rounds(_, _, _)
Sha1Rounds(w, s, t) ==
  IF Len(s) = 5 /\ t > 80 THEN s
  ELSE LET temp == Add32(Add32(Add32(Add32(Rotl32(s[1], 5),
                                           Sha1F(t, s[2], s[3], s[4])),
                                     s[5]), Sha1K(t)), w[t])
       IN Sha1Rounds(w, << temp, s[1], Rotl32(s[2], 30), s[3], s[4] >>, t + 1)

Sha1Compress(h, block) ==
  LET w == Sha1Schedule([k \in 1..16 |-> BeWord(block, 4 * k - 3)], 17)
      s == Sha1Rounds(w, h, 1)
  IN [k \in 1..5 |-> Add32(h[k], s[k])]

RECURSIVE Sha1Blocks(_, _, _)
Sha1Blocks(h, padded, k) ==
  IF Len(h) = 5 /\ k > Len(padded) THEN h
  ELSE Sha1Blocks(Sha1Compress(h, SubSeq(padded, k, k + 63)), padded, k + 64)

\* 67452301 EFCDAB89 98BADCFE 10325476 C3D2E1F0
Sha1IV ==
  << << 26437, 8961 >>, << 61389, 43913 >>, << 39098, 56574 >>,
     << 4146, 21622 >>, << 50130, 57840 >> >>

\* a digest of the leading 20 bytes only: whatever follows them is ignored
Sha1DigestOfKeyOnly(msg) ==
  LET h == Sha1Blocks(Sha1IV, Sha1Pad(SubSeq(msg, 1, Min(20, Len(msg)))), 1)
  IN WordBytes(h[1]) \o WordBytes(h[2]) \o WordBytes(h[3]) \o WordBytes(h[4])
       \o WordBytes(h[5])

Sha1Digest(msg) ==
  LET h == Sha1Blocks(Sha1IV, Sha1Pad(msg), 1)
  IN WordBytes(h[1]) \o WordBytes(h[2]) \o WordBytes(h[3]) \o WordBytes(h[4])
       \o WordBytes(h[5])

(***************************************************************************)
(* Program constants and slice helpers                                     *)
(***************************************************************************)
\* Sha1::output_size()
blocksize == 20
\* size_of::<u32>()
CounterSize == 4

\* dst[at .. at + src.len()].copy_from_slice(src), at counted from 0
Splice(dst, at, src) ==
  [k \in 1..Len(dst) |-> IF k > at /\ k <= at + Len(src) THEN src[k - at] ELSE dst[k]]

\* the i-th item of message.chunks(blocksize), i counted from 1; the last may be short
Chunk(msg, i) == SubSeq(msg, (i - 1) * blocksize + 1, Min(i * blocksize, Len(msg)))

\* an xor_slice that leaves dst as it was
XorSliceNoOp(dst, src) == dst

\* xor_slice: *dst ^= *src, returning dst (callers pass equal lengths)
XorSlice(dst, src) == [k \in 1..Len(dst) |-> XorTab[dst[k]][src[k]]]

\* a check that lets a longer public parameter through
PublicLenAtLeast(p) == Len(p) >= blocksize

\* assert_eq!(public.len(), blocksize, ...)
PublicLenOk(p) == Len(p) = blocksize

\* encode without its length check
EncodeNeverMisaligned(m) == FALSE

\* encode: if message.len() % blocksize != 0 { panic!(...) }
EncodeMisaligned(m) == Len(m) % blocksize # 0

\* decode: if message.len() % blocksize != 0 { panic!(...) }
DecodeMisaligned(m) == Len(m) % blocksize # 0

\* a decode that also refuses a buffer of exactly one block
DecodeUnderflowOrOneBlock(m) == Len(m) <= blocksize

\* decode: message.len() - blocksize on usize goes below zero
DecodeUnderflow(m) == Len(m) < blocksize

\* encode: vec![0u8; message.len() + blocksize]
EncodeBufferLen(m) == Len(m) + blocksize

\* a decode buffer as long as its input
DecodeBufferLenOfInput(m) == Len(m)

\* decode: vec![0u8; message.len() - blocksize]
DecodeBufferLen(m) == Len(m) - blocksize

\* a pass 1 that takes the last chunk for a message chunk too
IsMessageChunkOffByOne(i, blocks) == i <= blocks

\* decode pass 1: if i < blocks as u32 (counts stay far below 2^31 here)
IsMessageChunk(i, blocks) == i < blocks

(***************************************************************************)
(* The callers' inputs                                                     *)
(***************************************************************************)
\* largest number of whole blocks in a message handed to encode or decode
MaxBlocks == 2
\* the random source yields the keys KeyBlock(0) .. KeyBlock(MaxKey)
MaxKey == 1

\* "0123456789abcdef0123" of the tests
Twenty ==
  << 48, 49, 50, 51, 52, 53, 54, 55, 56, 57, 97, 98, 99, 100, 101, 102, 48, 49, 50, 51 >>
\* "abcde", the unit of the public parameter of the crate's example
Abcde == << 97, 98, 99, 100, 101 >>

Fill(pat, len) == [j \in 1..len |-> pat[((j - 1) % Len(pat)) + 1]]

Lengths == { n * blocksize + d : n \in 0..MaxBlocks, d \in {0, 1, blocksize - 1} }
Messages == { Fill(pat, len) : pat \in {Twenty, <<0>>}, len \in Lengths }
ValidPublics == { Fill(Abcde, blocksize), Twenty }
Publics ==
  ValidPublics \cup { Fill(Twenty, 2 * blocksize), Fill(Abcde, blocksize - 1), << >> }

KeyBlock(k) == [j \in 1..blocksize |-> (k * (j + 84)) % 256]
Keys == { KeyBlock(k) : k \in 0..MaxKey }

\* what a changed block differs by: its first bit, its last bit
Deltas == { Splice(Zeros(blocksize), 0, <<1>>), Splice(Zeros(blocksize), blocksize - 1, <<128>>) }

NoCall == [valid |-> FALSE, message |-> << >>, public |-> << >>, key |-> << >>,
           out |-> << >>]

(***************************************************************************)
(* State                                                                   *)
(***************************************************************************)
VARIABLES
  pc,        \* position in the running call
  call,      \* "none", "encode" or "decode"
  message,   \* argument: message
  public,    \* argument: public
  buffer,    \* local: the output buffer
  r_in,      \* local: input of hash(R, i)
  p_in,      \* local: input of hash(P, out[i] + i)
  sum,       \* local: S
  i,         \* local: the block counter
  blocks,    \* local of decode
  ret,       \* the boxed slice returned
  panic,     \* "none", or the panic that ended the call
  stderr,    \* what eprintln! has written
  sent,      \* history: the encode call whose output is in ret
  tampered   \* history: 0, or the block of that output changed since

vars == << pc, call, message, public, buffer, r_in, p_in, sum, i, blocks, ret, panic,
           stderr, sent, tampered >>

locals == << buffer, r_in, p_in, sum, i, blocks >>

Init ==
  /\ pc = "idle"
  /\ call = "none"
  /\ message = << >>
  /\ public = << >>
  /\ buffer = << >>
  /\ r_in = << >>
  /\ p_in = << >>
  /\ sum = << >>
  /\ i = 0
  /\ blocks = 0
  /\ ret = << >>
  /\ panic = "none"
  /\ stderr = << >>
  /\ sent = NoCall
  /\ tampered = 0

Panic(kind) ==
  /\ pc' = "panicked"
  /\ panic' = kind

(***************************************************************************)
(* encode_sha1                                                             *)
(***************************************************************************)
EncodeCall(m, p) ==
  /\ pc = "idle"
  /\ pc' = "e_public"
  /\ call' = "encode"
  /\ message' = m
  /\ public' = p
  /\ UNCHANGED << locals, ret, panic, stderr, sent, tampered >>

\* the assert on public, then the output buffer and r_in
EncodeCheckPublic ==
  /\ pc = "e_public"
  /\ IF ~PublicLenOk(public)
       THEN Panic("InvalidParameterLength") /\ UNCHANGED << buffer, r_in >>
       ELSE /\ pc' = "e_rand"
            /\ buffer' = Zeros(EncodeBufferLen(message))
            /\ r_in' = Zeros(blocksize + CounterSize)
            /\ UNCHANGED panic
  /\ UNCHANGED << call, message, public, p_in, sum, i, blocks, ret, stderr, sent,
                  tampered >>

\* R from thread_rng, the eprintln! of r_in, then p_in with public at its start
EncodeGenerateR(R) ==
  /\ pc = "e_rand"
  /\ r_in' = Splice(r_in, 0, R)
  /\ stderr' = Append(stderr, [text |-> "Generated random parameter", bytes |-> r_in'])
  /\ IF Len(public) # blocksize
       THEN Panic("SliceBounds") /\ UNCHANGED p_in
       ELSE /\ pc' = "e_length"
            /\ p_in' = Splice(Zeros(blocksize * 2 + CounterSize), 0, public)
            /\ UNCHANGED panic
  /\ UNCHANGED << call, message, public, buffer, sum, i, blocks, ret, sent, tampered >>

\* the check of the message length, then i and sum
EncodeCheckLength ==
  /\ pc = "e_length"
  /\ IF EncodeMisaligned(message)
       THEN Panic("InvalidMessageLength") /\ UNCHANGED << i, sum >>
       ELSE /\ pc' = "e_loop"
            /\ i' = 1
            /\ sum' = Zeros(blocksize)
            /\ UNCHANGED panic
  /\ UNCHANGED << call, message, public, buffer, r_in, p_in, blocks, ret, stderr, sent,
                  tampered >>

\* one pass of the loop over message.chunks(blocksize)
EncodeBlock ==
  /\ pc = "e_loop"
  /\ (i - 1) * blocksize < Len(message)
  /\ LET chunk == Chunk(message, i)
         lo == (i - 1) * blocksize
         r_in1 == Splice(r_in, blocksize, ToBeBytes(i))
         buffer1 == Splice(buffer, lo, chunk)
         dest == XorSlice(SubSeq(buffer1, lo + 1, lo + blocksize), Sha1Digest(r_in1))
         p_in1 == Splice(Splice(p_in, blocksize, dest), blocksize * 2, ToBeBytes(i))
     IN IF Len(chunk) # blocksize \/ i * blocksize > Len(buffer)
          THEN Panic("SliceBounds") /\ UNCHANGED << buffer, r_in, p_in, sum, i >>
          ELSE /\ buffer' = Splice(buffer1, lo, dest)
               /\ r_in' = r_in1
               /\ p_in' = p_in1
               /\ sum' = XorSlice(sum, Sha1Digest(p_in1))
               /\ i' = i + 1
               /\ UNCHANGED << pc, panic >>
  /\ UNCHANGED << call, message, public, blocks, ret, stderr, sent, tampered >>

\* sum ^ R appended as the last block, and the buffer returned
EncodeAppend ==
  /\ pc = "e_loop"
  /\ (i - 1) * blocksize >= Len(message)
  /\ LET last_block == (i - 1) * blocksize
         R == SubSeq(r_in, 1, blocksize)
         sum1 == XorSlice(sum, R)
     IN IF Len(buffer) - last_block # blocksize
          THEN Panic("SliceBounds") /\ UNCHANGED << buffer, sum, ret, sent >>
          ELSE /\ sum' = sum1
               /\ buffer' = Splice(buffer, last_block, sum1)
               /\ ret' = buffer'
               /\ sent' = [valid |-> TRUE, message |-> message, public |-> public,
                           key |-> R, out |-> buffer']
               /\ pc' = "returned"
               /\ UNCHANGED panic
  /\ UNCHANGED << call, message, public, r_in, p_in, i, blocks, stderr, tampered >>

(***************************************************************************)
(* decode_sha1                                                             *)
(***************************************************************************)
\* a call on any buffer
DecodeCall(t, p) ==
  /\ pc = "idle"
  /\ pc' = "d_check"
  /\ call' = "decode"
  /\ message' = t
  /\ public' = p
  /\ UNCHANGED << locals, ret, panic, stderr, sent, tampered >>

\* a call on what encode returned, as in the tests same_20_bytes_back and
\* same_40_bytes_back, with the same public parameter or another of the right length
DecodeReceived(p) ==
  /\ pc = "returned"
  /\ call = "encode"
  /\ pc' = "d_check"
  /\ call' = "decode"
  /\ message' = ret
  /\ public' = p
  /\ ret' = << >>
  /\ UNCHANGED << locals, panic, stderr, sent, tampered >>

\* one block of encode's output is replaced by a different value before decode
Tamper(j, delta) ==
  /\ pc = "returned"
  /\ call = "encode"
  /\ tampered = 0
  /\ j * blocksize <= Len(ret)
  /\ ret' = Splice(ret, (j - 1) * blocksize, XorSlice(Chunk(ret, j), delta))
  /\ tampered' = j
  /\ UNCHANGED << pc, call, message, public, locals, panic, stderr, sent >>

\* what the entry checks of decode end in: debug builds panic on the subtraction,
\* release builds wrap it and panic in vec! on the capacity
DecodeEntry(m, p) ==
  IF DecodeMisaligned(m) THEN {"InvalidMessageLength"}
  ELSE IF ~PublicLenOk(p) THEN {"InvalidParameterLength"}
  ELSE IF DecodeUnderflow(m) THEN {"SubtractOverflow", "CapacityOverflow"}
  ELSE IF Len(p) # blocksize THEN {"SliceBounds"}
  ELSE {"none"}

\* blocks, the two checks, then the buffers, i and sum
DecodeCheck ==
  /\ pc = "d_check"
  /\ blocks' = Len(message) \div blocksize
  /\ \E outcome \in DecodeEntry(message, public) :
       IF outcome # "none"
         THEN Panic(outcome) /\ UNCHANGED << buffer, r_in, p_in, sum, i >>
         ELSE /\ pc' = "d_pass1"
              /\ buffer' = Zeros(DecodeBufferLen(message))
              /\ r_in' = Zeros(blocksize + CounterSize)
              /\ p_in' = Splice(Zeros(blocksize * 2 + CounterSize), 0, public)
              /\ i' = 1
              /\ sum' = Zeros(blocksize)
              /\ UNCHANGED panic
  /\ UNCHANGED << call, message, public, ret, stderr, sent, tampered >>

\* pass 1, one chunk: a message chunk is hashed into sum; the last chunk
\* gives R = chunk ^ sum, which eprintln! writes
DecodePass1 ==
  /\ pc = "d_pass1"
  /\ (i - 1) * blocksize < Len(message)
  /\ LET chunk == Chunk(message, i)
         p_in1 == Splice(Splice(p_in, blocksize, chunk), blocksize * 2, ToBeBytes(i))
         r_in1 == Splice(r_in, 0, XorSlice(chunk, sum))
     IN IF Len(chunk) # blocksize
          THEN Panic("SliceBounds") /\ UNCHANGED << r_in, p_in, sum, i, stderr >>
          ELSE /\ IF IsMessageChunk(i, blocks)
                    THEN /\ p_in' = p_in1
                         /\ sum' = XorSlice(sum, Sha1Digest(p_in1))
                         /\ UNCHANGED << r_in, stderr >>
                    ELSE /\ r_in' = r_in1
                         /\ stderr' = Append(stderr,
                              [text |-> "Recovered random parameter", bytes |-> r_in1])
                         /\ UNCHANGED << p_in, sum >>
               /\ i' = i + 1
               /\ UNCHANGED << pc, panic >>
  /\ UNCHANGED << call, message, public, buffer, blocks, ret, sent, tampered >>

\* the message blocks copied into the buffer before pass 2
DecodeCopy ==
  /\ pc = "d_pass1"
  /\ (i - 1) * blocksize >= Len(message)
  /\ LET n == (blocks - 1) * blocksize
     IN IF blocks < 1 \/ n > Len(buffer) \/ n > Len(message)
          THEN Panic("SliceBounds") /\ UNCHANGED << buffer, i >>
          ELSE /\ buffer' = Splice(buffer, 0, SubSeq(message, 1, n))
               /\ i' = 1
               /\ pc' = "d_pass2"
               /\ UNCHANGED panic
  /\ UNCHANGED << call, message, public, r_in, p_in, sum, blocks, ret, stderr, sent,
                  tampered >>

\* pass 2, one block: chunk ^= hash(R, i)
DecodePass2 ==
  /\ pc = "d_pass2"
  /\ i < blocks
  /\ LET index == (i - 1) * blocksize
         chunk == SubSeq(buffer, index + 1, index + blocksize)
         r_in1 == Splice(r_in, blocksize, ToBeBytes(i))
     IN IF index + blocksize > Len(buffer)
          THEN Panic("SliceBounds") /\ UNCHANGED << buffer, r_in, i >>
          ELSE /\ r_in' = r_in1
               /\ buffer' = Splice(buffer, index, XorSlice(chunk, Sha1Digest(r_in1)))
               /\ i' = i + 1
               /\ UNCHANGED << pc, panic >>
  /\ UNCHANGED << call, message, public, p_in, sum, blocks, ret, stderr, sent, tampered >>

DecodeReturn ==
  /\ pc = "d_pass2"
  /\ i >= blocks
  /\ ret' = buffer
  /\ pc' = "returned"
  /\ UNCHANGED << call, message, public, locals, panic, stderr, sent, tampered >>

(***************************************************************************)
(* Specification                                                           *)
(***************************************************************************)
Next ==
  \/ \E m \in Messages, p \in Publics : EncodeCall(m, p)
  \/ EncodeCheckPublic
  \/ \E R \in Keys : EncodeGenerateR(R)
  \/ EncodeCheckLength
  \/ EncodeBlock
  \/ EncodeAppend
  \/ \E t \in Messages, p \in Publics : DecodeCall(t, p)
  \/ \E p \in ValidPublics : DecodeReceived(p)
  \/ \E j \in 1..(MaxBlocks + 1), delta \in Deltas : Tamper(j, delta)
  \/ DecodeCheck
  \/ DecodePass1
  \/ DecodeCopy
  \/ DecodePass2
  \/ DecodeReturn

Spec == Init /\ [][Next]_vars

(***************************************************************************)
(* Properties                                                              *)
(***************************************************************************)
Blocks(m) == Len(m) \div blocksize
Aligned(m) == Len(m) % blocksize = 0
Recovered == SubSeq(r_in, 1, blocksize)

\* decode was called with encode's unchanged output and encode's public parameter
DecodingOwnOutput ==
  /\ call = "decode"
  /\ sent.valid
  /\ tampered = 0
  /\ message = sent.out
  /\ public = sent.public

\* C1: decode_sha1(encode_sha1(m, p), p) returns exactly m, for every block-aligned
\* m, every p of length B and every key R encode drew; the call does not panic.
RoundTrip ==
  DecodingOwnOutput =>
    /\ panic = "none"
    /\ pc = "returned" => ret = sent.message

RoundTripWitness ==
  /\ DecodingOwnOutput
  /\ pc = "returned"
  /\ Len(sent.message) = 2 * blocksize
  /\ sent.key = KeyBlock(1)
  /\ ret = sent.message

\* C2: when encode succeeds its result is len(m) + B long, and when decode
\* succeeds its result is len(t) - B long.
LengthContracts ==
  pc = "returned" =>
    /\ call = "encode" => Len(ret) = Len(message) + blocksize
    /\ call = "decode" => Len(ret) = Len(message) - blocksize

LengthContractsWitness ==
  /\ pc = "returned"
  /\ call = "decode"
  /\ Len(message) = 2 * blocksize
  /\ Len(ret) = blocksize
  /\ sent.valid
  /\ Len(sent.out) = Len(sent.message) + blocksize

\* C3: with a public parameter of length B, encode on a message and decode on a
\* buffer whose length is no multiple of B end in the message-length panic and
\* return nothing: the call never gets to its block loop.
MisalignedRejected ==
  (call # "none" /\ Len(public) = blocksize /\ ~Aligned(message)) =>
    /\ pc \in {"e_public", "e_rand", "e_length", "d_check", "panicked"}
    /\ pc = "panicked" => panic = "InvalidMessageLength"
    /\ ret = << >>

MisalignedRejectedWitness ==
  /\ call = "encode"
  /\ Len(message) = blocksize - 1
  /\ Len(public) = blocksize
  /\ pc = "panicked"
  /\ panic = "InvalidMessageLength"

\* C4: on a block-aligned message or buffer, encode and decode with a public
\* parameter whose length is not B end in the parameter-length panic and return
\* nothing.
WrongPublicRejected ==
  (call # "none" /\ Len(public) # blocksize /\ Aligned(message)) =>
    /\ pc \in {"e_public", "d_check", "panicked"}
    /\ pc = "panicked" => panic = "InvalidParameterLength"
    /\ ret = << >>

WrongPublicRejectedWitness ==
  /\ call = "decode"
  /\ Len(message) = 2 * blocksize
  /\ Len(public) = 2 * blocksize
  /\ pc = "panicked"
  /\ panic = "InvalidParameterLength"

\* C5: decode with a public parameter of length B on a buffer shorter than one
\* block, the empty buffer included, ends in the message-length panic.
ShortBufferRejected ==
  (call = "decode" /\ Len(public) = blocksize /\ Len(message) < blocksize
     /\ pc = "panicked") =>
    panic = "InvalidMessageLength"

\* C6: decode on any buffer of one or more whole blocks, with any public parameter
\* of length B, does not panic and returns len(t) - B bytes, whether or not the
\* buffer came from encode; one block decodes to the empty output.
DecodeAcceptsWellFormed ==
  (call = "decode" /\ Aligned(message) /\ Len(message) >= blocksize
     /\ Len(public) = blocksize) =>
    /\ panic = "none"
    /\ pc # "panicked"
    /\ pc = "returned" => Len(ret) = Len(message) - blocksize

DecodeAcceptsWellFormedWitness ==
  /\ call = "decode"
  /\ pc = "returned"
  /\ ~sent.valid
  /\ Len(message) = blocksize
  /\ Len(public) = blocksize
  /\ ret = << >>

\* C7: when one block of encode's output (a masked block or the trailer) was
\* replaced by a different value, the key decode recovers in pass 1 differs from
\* R, and no block is unmasked with the keystream of R.
AllOrNothing ==
  (pc = "returned" /\ call = "decode" /\ sent.valid /\ tampered # 0
     /\ public = sent.public) =>
    /\ Recovered # sent.key
    /\ \A k \in 1..Blocks(sent.message) :
         Sha1Digest(Recovered \o ToBeBytes(k)) # Sha1Digest(sent.key \o ToBeBytes(k))

AllOrNothingWitness ==
  /\ pc = "returned"
  /\ call = "decode"
  /\ sent.valid
  /\ public = sent.public
  /\ Blocks(sent.message) = 2
  /\ tampered = 1
  /\ Recovered # sent.key
  /\ ret # sent.message

\* C8: for a non-empty message, the first len(m) bytes of encode's output differ
\* from m.
NonTrivial ==
  (pc = "returned" /\ call = "encode" /\ tampered = 0 /\ Len(message) > 0) =>
    SubSeq(ret, 1, Len(message)) # message

NonTrivialWitness ==
  /\ pc = "returned"
  /\ call = "encode"
  /\ tampered = 0
  /\ message = Twenty
  /\ public = Twenty
  /\ SubSeq(ret, 1, blocksize) # Twenty

\* the 1-based counter as 4 big-endian bytes, and the XOR of two blocks, as the
\* wire layout states them
BE32(k) == << (k \div 16777216) % 256, (k \div 65536) % 256, (k \div 256) % 256, k % 256 >>
BlockXor(a, b) == [k \in 1..blocksize |-> ByteXor(a[k], b[k])]

RECURSIVE Checksum(_, _, _)
\* S: the XOR over k in 1..n of H(public || transformed_k || BE32(k))
Checksum(p, t, n) ==
  IF n = 0 THEN Zeros(blocksize)
  ELSE BlockXor(Checksum(p, t, n - 1), Sha1Digest(p \o Chunk(t, n) \o BE32(n)))

\* C9: block k of encode's output is message_k XOR H(R || BE32(k)) for k in 1..n,
\* in order, and block n+1 is S XOR R with S taken over the masked output blocks;
\* for n = 0 the output is the one block R.
WireLayout ==
  (pc = "returned" /\ call = "encode" /\ tampered = 0) =>
    LET n == Blocks(message)
        R == sent.key
    IN /\ Len(ret) = (n + 1) * blocksize
       /\ \A k \in 1..n :
            Chunk(ret, k) = BlockXor(Chunk(message, k), Sha1Digest(R \o BE32(k)))
       /\ Chunk(ret, n + 1) = BlockXor(Checksum(public, ret, n), R)
       /\ n = 0 => ret = R

WireLayoutWitness ==
  /\ pc = "returned"
  /\ call = "encode"
  /\ tampered = 0
  /\ Blocks(message) = 2
  /\ sent.key = KeyBlock(1)
  /\ Chunk(ret, 3) = BlockXor(Checksum(public, ret, 2), KeyBlock(1))

\* C10: a call emits nothing but its return value or failure: nothing is written
\* to an external channel, the random key least of all.
NoSideEffects == stderr = << >>

====
